---- MODULE Spec2Model ----
(***************************************************************************)
(* State machine of the Slider component of src/slider.js: the slide index *)
(* controller (changeSlide, nextSlide, previousSlide), the change protocol *)
(* (#handleChangeSlide), the auto-play timer (#handleAutoPlay), the drag   *)
(* handlers bound by init(), and the Pagination and Navigation plugins.    *)
(*                                                                         *)
(* JavaScript runs every handler to completion, so each handler is one     *)
(* action.  The functions of the source are operators from a record of the *)
(* mutable state to the record after the call; an action applies the       *)
(* handler's operator to the current state.                                *)
(***************************************************************************)
EXTENDS Integers, Sequences, FiniteSets, TLC

\* Bounds of the model.
MaxSlides == 3      \* $('.slider-slide').length ranges over 0..MaxSlides
MaxPerView == 2     \* slidesPerView ranges over 1..MaxPerView
MaxPageX == 2       \* e.pageX of a mouse event ranges over 0..MaxPageX
SlideWidth == 3     \* $('.slider-slide').outerWidth() when there is a slide

\* Default of options.spaceBetween.
SpaceBetween == 20

VARIABLES
    \* configuration, fixed by the constructor's arguments and the page
    slideCount,     \* $('.slider-slide').length
    slidesPerView,  \* this.slidesPerView
    loop,           \* this.loop
    draggable,      \* this.draggable
    plugins,        \* this.plugins, a sequence of plugin kinds
    clickable,      \* the Pagination plugin's clickable option
    \* fields of the slider
    currentSlide,   \* this.currentSlide
    autoPlay,       \* this.autoPlay
    \* locals of init() captured by the drag handlers
    isPressed, startPos, distance,
    \* the page
    transform,      \* X of the wrapper's transform translateX(-X px)
    markers,        \* the pagination items, in document order
    prevDisabled,   \* .slider-button-prev carries buttonDisabledClass
    nextDisabled,   \* .slider-button-next carries buttonDisabledClass
    navBound,       \* the navigation buttons have their click handlers
    timers,         \* number of pending setTimeout callbacks
    \* progress of the constructor's call of init()
    inited,         \* "pending", "done", or "failed" (init() threw)
    \* observation of the calls made
    initCalls,      \* initCalls[k]: number of calls of plugins[k].init
    trace           \* the handler that ran last and the calls it made

config == <<slideCount, slidesPerView, loop, draggable, plugins, clickable>>
vars == <<slideCount, slidesPerView, loop, draggable, plugins, clickable,
          currentSlide, autoPlay, isPressed, startPos, distance, transform,
          markers, prevDisabled, nextDisabled, navBound, timers, inited,
          initCalls, trace>>

----------------------------------------------------------------------------
\* Values

PluginKinds == {"Pagination", "Navigation"}

\* The plugin lists considered: each built-in plugin at most once, any order.
PluginLists ==
    {p \in UNION {[1..n -> PluginKinds] : n \in 0..Cardinality(PluginKinds)} :
        \A i, j \in DOMAIN p : p[i] = p[j] => i = j}

HasPlugin(kind) == \E k \in DOMAIN plugins : plugins[k] = kind

\* Values of options.defaultIndex.
DefaultIndexes == 0..1

\* Indexes passed to changeSlide by the page's script.
Indexes == -1..MaxSlides

PageXs == 0..MaxPageX

\* A CSS length: a number of pixels, or NaN.
Px(n) == [nan |-> FALSE, px |-> n]
NaNpx == [nan |-> TRUE, px |-> 0]

\* $('.slider-slide').length - this.slidesPerView
LastIndex == slideCount - slidesPerView

\* The resting indexes of a slider that does not loop.
InRange(i) == 0 <= i /\ i <= (IF LastIndex > 0 THEN LastIndex ELSE 0)

\* ($('.slider-slide').outerWidth() + this.spaceBetween) * index + d;
\* outerWidth() of an empty selection is undefined and the sum is NaN.
Offset(index, d) ==
    IF slideCount = 0 THEN NaNpx
    ELSE Px((SlideWidth + SpaceBetween) * index + d)

\* d > slideWidth / 3; false when slideWidth is undefined.
OverThird(d) == slideCount > 0 /\ 3 * d > SlideWidth

Ev(op, arg, cs) == [op |-> op, arg |-> arg, cs |-> cs]

\* Record that op(arg) ran, with the value of currentSlide at that point.
Log(s, op, arg) ==
    [s EXCEPT !.trace = Append(@, Ev(op, arg, s.currentSlide))]

----------------------------------------------------------------------------
\* The mutable state as one record, and its assignment to the variables.

S ==
    [currentSlide |-> currentSlide, autoPlay |-> autoPlay,
     isPressed |-> isPressed, startPos |-> startPos, distance |-> distance,
     transform |-> transform, markers |-> markers,
     prevDisabled |-> prevDisabled, nextDisabled |-> nextDisabled,
     navBound |-> navBound, timers |-> timers, initCalls |-> initCalls,
     thrown |-> FALSE, trace |-> <<>>]

Becomes(s) ==
    /\ currentSlide' = s.currentSlide
    /\ autoPlay' = s.autoPlay
    /\ isPressed' = s.isPressed
    /\ startPos' = s.startPos
    /\ distance' = s.distance
    /\ transform' = s.transform
    /\ markers' = s.markers
    /\ prevDisabled' = s.prevDisabled
    /\ nextDisabled' = s.nextDisabled
    /\ navBound' = s.navBound
    /\ timers' = s.timers
    /\ initCalls' = s.initCalls
    /\ trace' = s.trace

----------------------------------------------------------------------------
\* Plugins: change callbacks

\* Mutant of changeActiveState: the class is added but never removed.
changeActiveState_AddOnly(s) ==
    [s EXCEPT !.markers =
        [i \in 1..Len(s.markers) |->
            [s.markers[i] EXCEPT !.active = @ \/ (s.currentSlide = i - 1)]]]

\* Pagination: changeActiveState(slider)
changeActiveState(s) ==
    [s EXCEPT !.markers =
        [i \in 1..Len(s.markers) |->
            [s.markers[i] EXCEPT !.active = (s.currentSlide = i - 1)]]]

\* Navigation: changeDisabledState(slider)
changeDisabledState(s) ==
    IF ~loop
    THEN [s EXCEPT !.prevDisabled = (s.currentSlide = 0),
                   !.nextDisabled = (s.currentSlide = LastIndex)]
    ELSE s

\* plugin.change(this) for the k-th plugin
PluginChange(k, s) ==
    IF plugins[k] = "Pagination" THEN changeActiveState(Log(s, "change", k))
    ELSE changeDisabledState(Log(s, "change", k))

\* for (let plugin of this.plugins) plugin.change(this), from the k-th on
RECURSIVE ChangeFrom(_, _)
ChangeFrom(k, s) ==
    IF k > Len(plugins) THEN s ELSE ChangeFrom(k + 1, PluginChange(k, s))

----------------------------------------------------------------------------
\* The slider's methods

\* Mutant of handleChangeSlide: the plugins are told before the transform
\* is written.
handleChangeSlide_PluginsFirst(s) ==
    LET s1 == ChangeFrom(1, s)
    IN  Log([s1 EXCEPT !.transform = Offset(s1.currentSlide, 0)],
            "transform", 0)

\* #handleChangeSlide()
handleChangeSlide(s) ==
    ChangeFrom(1,
        Log([s EXCEPT !.transform = Offset(s.currentSlide, 0)], "transform", 0))

\* changeSlide(index)
changeSlide(index, s) ==
    handleChangeSlide(
        Log([s EXCEPT !.currentSlide = index], "changeSlide", index))

\* Mutant of nextSlide: <= in place of < in the tests against the last index.
nextSlide_OffByOne(s) ==
    handleChangeSlide(
        Log([s EXCEPT !.currentSlide =
                IF loop
                THEN (IF @ <= LastIndex THEN @ + 1 ELSE 0)
                ELSE (IF @ <= LastIndex THEN @ + 1 ELSE @)],
            "nextSlide", 0))

\* Mutant of nextSlide: no test against the last index.
nextSlide_NoBound(s) ==
    handleChangeSlide(
        Log([s EXCEPT !.currentSlide = @ + 1], "nextSlide", 0))

\* Mutant of nextSlide: the looping slider does not wrap to 0.
nextSlide_NoWrap(s) ==
    handleChangeSlide(
        Log([s EXCEPT !.currentSlide = IF @ < LastIndex THEN @ + 1 ELSE @],
            "nextSlide", 0))

\* Mutant of nextSlide: at the bound of a slider that does not loop, return
\* without running the change protocol.
nextSlide_ReturnAtBound(s) ==
    IF ~loop /\ ~(s.currentSlide < LastIndex) THEN Log(s, "nextSlide", 0)
    ELSE handleChangeSlide(
            Log([s EXCEPT !.currentSlide =
                    IF @ < LastIndex THEN @ + 1 ELSE 0],
                "nextSlide", 0))

\* nextSlide()
nextSlide(s) ==
    handleChangeSlide(
        Log([s EXCEPT !.currentSlide =
                IF loop
                THEN (IF @ < LastIndex THEN @ + 1 ELSE 0)
                ELSE (IF @ < LastIndex THEN @ + 1 ELSE @)],
            "nextSlide", 0))

\* Mutant of previousSlide: no test against 0.
previousSlide_NoBound(s) ==
    handleChangeSlide(
        Log([s EXCEPT !.currentSlide = @ - 1], "previousSlide", 0))

\* Mutant of previousSlide: the looping slider wraps to the last slide
\* instead of the last index.
previousSlide_WrapToCount(s) ==
    handleChangeSlide(
        Log([s EXCEPT !.currentSlide =
                IF loop
                THEN (IF @ > 0 THEN @ - 1 ELSE slideCount - 1)
                ELSE (IF @ > 0 THEN @ - 1 ELSE @)],
            "previousSlide", 0))

\* previousSlide()
previousSlide(s) ==
    handleChangeSlide(
        Log([s EXCEPT !.currentSlide =
                IF loop
                THEN (IF @ > 0 THEN @ - 1 ELSE LastIndex)
                ELSE (IF @ > 0 THEN @ - 1 ELSE @)],
            "previousSlide", 0))

\* #handleAutoPlay(): schedules the callback
handleAutoPlay(s) == Log([s EXCEPT !.timers = @ + 1], "setTimeout", 0)

\* Mutant of the timeout callback: nextSlide() in both cases.
timeoutCallback_AlwaysNext(s) ==
    LET s0 == Log(s, "timeout", 0)
    IN  IF s0.autoPlay THEN handleAutoPlay(nextSlide(s0)) ELSE s0

\* Mutant of the timeout callback: #handleAutoPlay() is called outside the
\* test of autoPlay.
timeoutCallback_AlwaysReschedule(s) ==
    LET s0 == Log(s, "timeout", 0)
    IN  handleAutoPlay(
            IF s0.autoPlay
            THEN (IF s0.currentSlide < LastIndex THEN nextSlide(s0)
                  ELSE changeSlide(0, s0))
            ELSE s0)

\* the callback given to setTimeout
timeoutCallback(s) ==
    LET s0 == Log(s, "timeout", 0)
    IN  IF s0.autoPlay
        THEN handleAutoPlay(
                IF s0.currentSlide < LastIndex THEN nextSlide(s0)
                ELSE changeSlide(0, s0))
        ELSE s0

----------------------------------------------------------------------------
\* Plugins: init callbacks

\* Mutant of markerClick: autoPlay is left as it was.
markerClick_KeepAutoPlay(i, s) ==
    changeActiveState(Log(changeSlide(i, s), "changeActiveState", 0))

\* Mutant of markerClick: the click restarts auto-play.
markerClick_Restart(i, s) ==
    LET s1 == changeSlide(i, s)
        s2 == changeActiveState(Log(s1, "changeActiveState", 0))
    IN  IF s2.autoPlay THEN handleAutoPlay(s2) ELSE s2

\* the click handler that each() binds with index i
markerClick(i, s) ==
    LET s1 == changeSlide(i, s)
        s2 == changeActiveState(Log(s1, "changeActiveState", 0))
    IN  [s2 EXCEPT !.autoPlay = IF @ THEN FALSE ELSE @]

\* a click on the pagination item at position pos runs the handler bound to it
clickItem(pos, s) ==
    markerClick(CHOOSE i \in s.markers[pos + 1].click : TRUE,
                Log(s, "click", pos))

\* Array(n).forEach: append an item, then changeActiveState(slider)
RECURSIVE AppendMarkers(_, _)
AppendMarkers(n, s) ==
    IF n = 0 THEN s
    ELSE LET s1 == AppendMarkers(n - 1, s)
         IN  changeActiveState(
                [s1 EXCEPT !.markers =
                    Append(@, [active |-> FALSE, click |-> {}])])

\* Mutant of BindMarkers: the handlers count positions from 1.
BindMarkers_OneBased(s) ==
    [s EXCEPT !.markers =
        [i \in 1..Len(s.markers) |->
            [s.markers[i] EXCEPT !.click = @ \cup {i}]]]

\* $(items).each((i, el) => $(el).click(...))
BindMarkers(s) ==
    [s EXCEPT !.markers =
        [i \in 1..Len(s.markers) |->
            [s.markers[i] EXCEPT !.click = @ \cup {i - 1}]]]

\* Mutant of PaginationInit: one item per slide.
PaginationInit_PerSlide(s) ==
    LET s1 == AppendMarkers(slideCount, s)
    IN  IF clickable THEN BindMarkers(s1) ELSE s1

\* Pagination: init(slider).  Array(n) throws a RangeError when n < 0.
PaginationInit(s) ==
    IF LastIndex + 1 < 0 THEN [s EXCEPT !.thrown = TRUE]
    ELSE LET s1 == AppendMarkers(LastIndex + 1, s)
         IN  IF clickable THEN BindMarkers(s1) ELSE s1

\* Navigation: init(slider)
NavigationInit(s) == changeDisabledState([s EXCEPT !.navBound = TRUE])

\* plugin.init(this) for the k-th plugin
PluginInit(k, s) ==
    LET s0 == [Log(s, "init", k) EXCEPT !.initCalls[k] = @ + 1]
    IN  IF plugins[k] = "Pagination" THEN PaginationInit(s0)
        ELSE NavigationInit(s0)

\* for (let plugin of this.plugins) plugin.init(this), from the k-th on;
\* an exception ends the loop and init()
RECURSIVE InitFrom(_, _)
InitFrom(k, s) ==
    IF k > Len(plugins) THEN s
    ELSE LET s1 == PluginInit(k, s)
         IN  IF s1.thrown THEN s1 ELSE InitFrom(k + 1, s1)

\* init()
init(s) ==
    LET s0 == Log([Log(s, "init()", 0) EXCEPT
                        !.transform = Offset(s.currentSlide, 0)],
                  "transform", 0)
        s1 == InitFrom(1, s0)
    IN  IF s1.thrown THEN s1
        ELSE IF s1.autoPlay THEN handleAutoPlay(s1)
        ELSE s1

----------------------------------------------------------------------------
\* The drag handlers bound by init()

\* $('.slider-wrapper').mousedown
mousedown(pageX, s) ==
    [Log(s, "mousedown", 0) EXCEPT !.startPos = pageX, !.isPressed = TRUE]

\* Mutant of mouseup: the tests of loop and of the bounds are missing.
mouseup_NoBoundTest(s) ==
    LET s0 == Log(s, "mouseup", 0)
        s1 ==
            IF OverThird(s.distance) THEN nextSlide(s0)
            ELSE IF OverThird(-s.distance) THEN previousSlide(s0)
            ELSE Log([s0 EXCEPT !.transform = Offset(s.currentSlide, 0)],
                     "transform", 0)
    IN  [s1 EXCEPT !.isPressed = FALSE, !.startPos = 0, !.distance = 0]

\* Mutant of mouseup: the last branch runs the change protocol.
mouseup_SnapNotifies(s) ==
    LET s0 == Log(s, "mouseup", 0)
        s1 ==
            IF OverThird(s.distance) /\ (loop \/ s.currentSlide < LastIndex)
            THEN nextSlide(s0)
            ELSE IF OverThird(-s.distance) /\ (loop \/ s.currentSlide > 0)
            THEN previousSlide(s0)
            ELSE handleChangeSlide(s0)
    IN  [s1 EXCEPT !.isPressed = FALSE, !.startPos = 0, !.distance = 0]

\* Mutant of mouseup: startPos and distance are not reset.
mouseup_KeepDistance(s) ==
    LET s0 == Log(s, "mouseup", 0)
        s1 ==
            IF OverThird(s.distance) /\ (loop \/ s.currentSlide < LastIndex)
            THEN nextSlide(s0)
            ELSE IF OverThird(-s.distance) /\ (loop \/ s.currentSlide > 0)
            THEN previousSlide(s0)
            ELSE Log([s0 EXCEPT !.transform = Offset(s.currentSlide, 0)],
                     "transform", 0)
    IN  [s1 EXCEPT !.isPressed = FALSE]

\* $(window).mouseup
mouseup(s) ==
    LET s0 == Log(s, "mouseup", 0)
        s1 ==
            IF OverThird(s.distance) /\ (loop \/ s.currentSlide < LastIndex)
            THEN nextSlide(s0)
            ELSE IF OverThird(-s.distance) /\ (loop \/ s.currentSlide > 0)
            THEN previousSlide(s0)
            ELSE Log([s0 EXCEPT !.transform = Offset(s.currentSlide, 0)],
                     "transform", 0)
    IN  [s1 EXCEPT !.isPressed = FALSE, !.startPos = 0, !.distance = 0]

\* $('.slider-wrapper').mousemove
mousemove(pageX, s) ==
    LET s0 == Log(s, "mousemove", 0)
    IN  IF ~s.isPressed THEN s0
        ELSE LET d == s.startPos - pageX
             IN  Log([s0 EXCEPT !.distance = d,
                                !.transform = Offset(s.currentSlide, d)],
                     "transform", d)

----------------------------------------------------------------------------
\* Initial states: the constructor has assigned the fields (lines 33-43) and
\* is about to call init().

Init ==
    /\ slideCount \in 0..MaxSlides
    /\ slidesPerView \in 1..MaxPerView
    /\ loop \in BOOLEAN
    /\ draggable \in BOOLEAN
    /\ plugins \in PluginLists
    /\ clickable \in (IF HasPlugin("Pagination") THEN BOOLEAN ELSE {TRUE})
    /\ autoPlay \in BOOLEAN
    /\ currentSlide \in DefaultIndexes      \* this.defaultIndex
    /\ isPressed = FALSE
    /\ startPos = 0
    /\ distance = 0
    /\ transform = Px(0)
    /\ markers = <<>>
    /\ prevDisabled = FALSE
    /\ nextDisabled = FALSE
    /\ navBound = FALSE
    /\ timers = 0
    /\ inited = "pending"
    /\ initCalls = [k \in DOMAIN plugins |-> 0]
    /\ trace = <<>>

----------------------------------------------------------------------------
\* Actions: one per handler run by the event loop

\* this.init(), called by the constructor
DoInit ==
    /\ inited = "pending"
    /\ \E s \in {init(S)} :
           /\ Becomes(s)
           /\ inited' = IF s.thrown THEN "failed" ELSE "done"
    /\ UNCHANGED config

\* slider.nextSlide() called by the page's script
CallNext ==
    /\ inited = "done"
    /\ Becomes(nextSlide(S))
    /\ UNCHANGED <<config, inited>>

\* slider.previousSlide() called by the page's script
CallPrevious ==
    /\ inited = "done"
    /\ Becomes(previousSlide(S))
    /\ UNCHANGED <<config, inited>>

\* slider.changeSlide(index) called by the page's script
CallGoTo ==
    /\ inited = "done"
    /\ \E index \in Indexes :
        /\ Becomes(changeSlide(index, S))
    /\ UNCHANGED <<config, inited>>

\* click on .slider-button-next
ClickNext ==
    /\ navBound
    /\ Becomes(nextSlide(S))
    /\ UNCHANGED <<config, inited>>

\* click on .slider-button-prev
ClickPrev ==
    /\ navBound
    /\ Becomes(previousSlide(S))
    /\ UNCHANGED <<config, inited>>

\* click on a pagination item that has a click handler
ClickMarker ==
    /\ \E pos \in 0..(Len(markers) - 1) :
        /\ markers[pos + 1].click # {}
        /\ Becomes(clickItem(pos, S))
    /\ UNCHANGED <<config, inited>>

\* mousedown on .slider-wrapper
MouseDown ==
    /\ inited # "pending"
    /\ draggable
    /\ \E x \in PageXs :
        /\ Becomes(mousedown(x, S))
    /\ UNCHANGED <<config, inited>>

\* mouseup on window
MouseUp ==
    /\ inited # "pending"
    /\ draggable
    /\ Becomes(mouseup(S))
    /\ UNCHANGED <<config, inited>>

\* mousemove on .slider-wrapper
MouseMove ==
    /\ inited # "pending"
    /\ draggable
    /\ \E x \in PageXs :
        /\ Becomes(mousemove(x, S))
    /\ UNCHANGED <<config, inited>>

\* a pending timeout fires
TimerFire ==
    /\ timers > 0
    /\ \E s \in {timeoutCallback([S EXCEPT !.timers = @ - 1])} : Becomes(s)
    /\ UNCHANGED <<config, inited>>

Next ==
    \/ DoInit
    \/ CallNext
    \/ CallPrevious
    \/ CallGoTo
    \/ ClickNext
    \/ ClickPrev
    \/ ClickMarker
    \/ MouseDown
    \/ MouseUp
    \/ MouseMove
    \/ TimerFire

Spec == Init /\ [][Next]_vars

\* The slider driven by nextSlide(), previousSlide() and the auto-play timer
\* alone, constructed with a defaultIndex that is a resting index.
InitNav == Init /\ InRange(currentSlide)

NextNav ==
    \/ DoInit
    \/ CallNext
    \/ CallPrevious
    \/ TimerFire

SpecNav == InitNav /\ [][NextNav]_vars

\* The slider driven by the user interface alone (drag, navigation buttons,
\* pagination items, auto-play timer), with at least slidesPerView slides
\* and a defaultIndex in [0, slideCount - slidesPerView].
InitUI == Init /\ LastIndex >= 0 /\ currentSlide <= LastIndex

NextUI ==
    \/ DoInit
    \/ ClickNext
    \/ ClickPrev
    \/ ClickMarker
    \/ MouseDown
    \/ MouseUp
    \/ MouseMove
    \/ TimerFire

SpecUI == InitUI /\ [][NextUI]_vars

\* The slider constructed with autoPlay = true and left to its timer: no
\* handler that navigates or clears autoPlay runs.  The constructor runs
\* init(), and a pending timeout fires after its delay.
InitAuto == Init /\ autoPlay

NextAuto ==
    \/ DoInit
    \/ TimerFire

SpecAuto ==
    InitAuto /\ [][NextAuto]_vars /\ WF_vars(DoInit) /\ WF_vars(TimerFire)

----------------------------------------------------------------------------
\* Observations used by the properties

\* The handler that ran last.
Handler == IF trace = <<>> THEN "none" ELSE trace[1].op

\* The handler that ran last called op.
Called(op) == \E p \in DOMAIN trace : trace[p].op = op

\* The number of calls of plugins[k].change in a trace.
ChangeCalls(tr, k) ==
    Cardinality({p \in DOMAIN tr : tr[p].op = "change" /\ tr[p].arg = k})

\* The calls the change protocol makes for currentSlide = cs, in order:
\* the transform, then change on every plugin in registration order.
ProtocolCalls(cs) ==
    <<Ev("transform", 0, cs)>> \o [k \in 1..Len(plugins) |-> Ev("change", k, cs)]

NavOps == {"nextSlide", "previousSlide", "changeSlide"}

----------------------------------------------------------------------------
\* Properties

\* C1 (as stated): after construction, a slider that does not loop has
\* 0 <= currentSlide <= max(0, slideCount - slidesPerView) in every state.
C1_Original == (inited # "pending" /\ ~loop) => InRange(currentSlide)

\* The page's script called changeSlide(index) with an index that is not a
\* resting index.
OutOfRangeGoTo == Handler = "changeSlide" /\ ~InRange(trace[1].arg)

\* C1 (amended): in a slider that does not loop, every handler other than a
\* changeSlide(index) with index outside [0, max(0, slideCount -
\* slidesPerView)] that starts with currentSlide in that range ends with
\* currentSlide in that range; init() leaves currentSlide at defaultIndex.
C1_RangePreserved ==
    [][(~loop /\ InRange(currentSlide) /\ ~OutOfRangeGoTo')
          => InRange(currentSlide')]_vars

\* C1: next() was called at the upper bound of a slider that does not loop.
C1_Witness ==
    /\ ~loop
    /\ LastIndex >= 1
    /\ Called("nextSlide")
    /\ currentSlide = LastIndex

\* C2 (as stated): in a slider that does not loop and starts at 0, next()
\* never produces currentSlide > slideCount - slidesPerView and previous()
\* never produces currentSlide < 0.
C2_Original ==
    /\ (~loop /\ Handler = "nextSlide") => currentSlide <= LastIndex
    /\ (~loop /\ Handler = "previousSlide") => currentSlide >= 0

\* C2 (amended): in a slider that does not loop and starts at a resting
\* index, next() never produces currentSlide > max(0, slideCount -
\* slidesPerView) and previous() never produces currentSlide < 0.
C2_NextPrevBounded ==
    /\ (~loop /\ Handler = "nextSlide") =>
          currentSlide <= (IF LastIndex > 0 THEN LastIndex ELSE 0)
    /\ (~loop /\ Handler = "previousSlide") => currentSlide >= 0

\* C2: next() ran with fewer slides than slidesPerView and left 0.
C2_Witness ==
    /\ ~loop
    /\ LastIndex < 0
    /\ Handler = "nextSlide"
    /\ currentSlide = 0

\* C3: in a looping slider, next() at slideCount - slidesPerView sets
\* currentSlide to 0 and previous() at 0 sets it to slideCount -
\* slidesPerView; from the indexes in between, next() adds 1 and previous()
\* subtracts 1.
C3_LoopStep ==
    [][/\ (loop /\ Called("nextSlide")') =>
            /\ currentSlide = LastIndex => currentSlide' = 0
            /\ (0 <= currentSlide /\ currentSlide < LastIndex) =>
                  currentSlide' = currentSlide + 1
       /\ (loop /\ Called("previousSlide")') =>
            /\ currentSlide = 0 => currentSlide' = LastIndex
            /\ (0 < currentSlide /\ currentSlide <= LastIndex) =>
                  currentSlide' = currentSlide - 1]_vars

\* C3: previous() of a looping slider ended at the last index.
C3_Witness ==
    /\ loop
    /\ LastIndex >= 2
    /\ Called("previousSlide")
    /\ currentSlide = LastIndex

\* C4 (as stated): after construction, a looping slider has currentSlide in
\* [0, slideCount - slidesPerView], whatever slideCount and slidesPerView.
C4_Original ==
    (inited # "pending" /\ loop) =>
        (0 <= currentSlide /\ currentSlide <= LastIndex)

\* C4 (amended): a looping slider with slideCount >= slidesPerView and
\* defaultIndex in [0, slideCount - slidesPerView] has currentSlide in that
\* interval after any sequence of next(), previous() and timer firings.
C4_LoopRange ==
    (loop /\ LastIndex >= 0) =>
        (0 <= currentSlide /\ currentSlide <= LastIndex)

\* C4: the auto-play timer of a looping slider wrapped to 0.
C4_Witness ==
    /\ loop
    /\ LastIndex >= 1
    /\ Handler = "timeout"
    /\ Called("changeSlide")
    /\ currentSlide = 0

\* C5: in a slider that does not loop, next() at slideCount - slidesPerView
\* and previous() at 0 leave currentSlide unchanged and call change on
\* every plugin exactly once.
C5_NoOpAtBound ==
    [][((~loop /\ Called("nextSlide")' /\ currentSlide = LastIndex)
         \/ (~loop /\ Called("previousSlide")' /\ currentSlide = 0))
       => /\ currentSlide' = currentSlide
          /\ \A k \in DOMAIN plugins : ChangeCalls(trace', k) = 1]_vars

\* C5: next() was called by the page at the bound, with two plugins.
C5_Witness ==
    /\ ~loop
    /\ Len(plugins) = 2
    /\ LastIndex = 0
    /\ Handler = "nextSlide"
    /\ currentSlide = 0

\* C6: every call of next(), previous() or goTo(index) first sets the
\* transform to the offset of the new currentSlide, then calls change on
\* every plugin exactly once, in registration order, each plugin finding
\* the new currentSlide.
C6_ChangeProtocol ==
    \A p \in DOMAIN trace :
        trace[p].op \in NavOps =>
            /\ trace[p].cs = currentSlide
            /\ transform = Offset(currentSlide, 0)
            /\ p + 1 + Len(plugins) <= Len(trace)
            /\ SubSeq(trace, p + 1, p + 1 + Len(plugins))
                  = ProtocolCalls(currentSlide)
            /\ \A k \in DOMAIN plugins : ChangeCalls(trace, k) = 1

\* C6: a drag release called previous() with two plugins registered.
C6_Witness ==
    /\ Handler = "mouseup"
    /\ Called("previousSlide")
    /\ Len(plugins) = 2
    /\ currentSlide = 1

\* C7 (as stated): once init() has run, every registered plugin's init has
\* been called exactly once, and it stays so.
C7_Original ==
    inited # "pending" => \A k \in DOMAIN plugins : initCalls[k] = 1

\* The Pagination plugin's init has been called.
PaginationInited ==
    \E k \in DOMAIN plugins : plugins[k] = "Pagination" /\ initCalls[k] >= 1

\* C8 (as stated): after the Pagination plugin's init, the number of items
\* is slideCount - slidesPerView + 1.
C8_Original == PaginationInited => Len(markers) = LastIndex + 1

\* C8 (amended): after the Pagination plugin's init, the number of items is
\* slideCount - slidesPerView + 1 when that is not negative, whatever loop
\* is; when it is negative, init throws and there is no item.
C8_MarkerCount ==
    PaginationInited =>
        \/ LastIndex + 1 >= 0 /\ Len(markers) = LastIndex + 1
        \/ LastIndex + 1 < 0 /\ Len(markers) = 0 /\ inited = "failed"

\* C8: a looping slider got three pagination items.
C8_Witness == PaginationInited /\ loop /\ Len(markers) = 3

\* C9: with the Pagination plugin registered, once init() has run, the item
\* at position currentSlide is the only active one when currentSlide is in
\* [0, number of items - 1], and no item is active otherwise.
C9_OneActive ==
    (HasPlugin("Pagination") /\ inited # "pending") =>
        LET active == {i \in 1..Len(markers) : markers[i].active}
        IN  IF 0 <= currentSlide /\ currentSlide <= Len(markers) - 1
            THEN active = {currentSlide + 1}
            ELSE active = {}

\* C9: next() moved the active item to the third position.
C9_Witness ==
    /\ Len(markers) = 3
    /\ Called("nextSlide")
    /\ currentSlide = 2
    /\ markers[3].active

\* C10: a click on the clickable item at position i sets currentSlide to i,
\* runs the change protocol and leaves autoPlay false; autoPlay never
\* becomes true again, and a timer firing with autoPlay false leaves
\* currentSlide unchanged.
C10_ClickStopsAutoPlay ==
    [][/\ Handler' = "click" =>
            /\ currentSlide' = trace'[1].arg
            /\ SubSeq(trace', 2, 3 + Len(plugins))
                  = <<Ev("changeSlide", trace'[1].arg, trace'[1].arg)>>
                      \o ProtocolCalls(trace'[1].arg)
            /\ ~autoPlay'
       /\ ~autoPlay => ~autoPlay'
       /\ (~autoPlay /\ Handler' = "timeout") =>
              currentSlide' = currentSlide]_vars

\* C10: a click on the third item stopped a running auto-play.
C10_Witness ==
    /\ Handler = "click"
    /\ trace[1].arg = 2
    /\ currentSlide = 2
    /\ timers = 1
    /\ ~autoPlay

\* The buttons' marking agrees with currentSlide.
DisabledAgrees ==
    /\ prevDisabled <=> (currentSlide = 0)
    /\ nextDisabled <=> (currentSlide = LastIndex)

\* C11 (as stated): with the Navigation plugin registered and loop = false,
\* once init() has run and after every change protocol, the previous button
\* is marked disabled iff currentSlide = 0 and the next button iff
\* currentSlide = slideCount - slidesPerView.
C11_Original ==
    (HasPlugin("Navigation") /\ ~loop /\ inited # "pending") => DisabledAgrees

\* The Navigation plugin's init has been called.
NavigationInited ==
    \E k \in DOMAIN plugins : plugins[k] = "Navigation" /\ initCalls[k] >= 1

\* C11 where the Navigation plugin's init or change has run: with loop =
\* false the marking agrees with currentSlide; with loop = true no step
\* changes the marking.
C11_WhenNavigationRan ==
    /\ [](((NavigationInited \/ (HasPlugin("Navigation") /\ Called("change")))
            /\ ~loop) => DisabledAgrees)
    /\ [][loop => UNCHANGED <<prevDisabled, nextDisabled>>]_vars

\* The number of calls of op in a trace.
Calls(tr, op) == Cardinality({p \in DOMAIN tr : tr[p].op = op})

\* The recorded distance d exceeds a third of the slide's width (there is a
\* slide to measure).
Beyond(d) == slideCount > 0 /\ 3 * d > SlideWidth

\* The first and the second test of the mouseup handler, as C12 states them.
AdvanceCase == Beyond(distance) /\ (loop \/ currentSlide < LastIndex)
RetreatCase ==
    ~AdvanceCase /\ Beyond(-distance) /\ (loop \/ currentSlide > 0)

\* C12: on mouseup, if distance > slideWidth/3 and (loop or currentSlide <
\* slideCount - slidesPerView), next() is called exactly once and previous()
\* is not; otherwise if -distance > slideWidth/3 and (loop or currentSlide >
\* 0), previous() is called exactly once and next() is not; otherwise
\* neither is called.
C12_ReleaseDecision ==
    [][Handler' = "mouseup" =>
          /\ Calls(trace', "nextSlide") = (IF AdvanceCase THEN 1 ELSE 0)
          /\ Calls(trace', "previousSlide") = (IF RetreatCase THEN 1 ELSE 0)
          /\ Calls(trace', "changeSlide") = 0]_vars

\* C12: a release moved a slider that does not loop from 0 to 1.
C12_Witness ==
    /\ ~loop
    /\ Handler = "mouseup"
    /\ Called("nextSlide")
    /\ currentSlide = 1
    /\ LastIndex >= 1

\* C13: in a slider that does not loop, with slidesPerView >= slideCount
\* and currentSlide = 0, every next() and previous() leaves currentSlide at
\* 0 and completes (init()'s outcome is unchanged and the protocol ran).
C13_DegenerateNoOp ==
    [][(~loop /\ LastIndex <= 0 /\ currentSlide = 0
          /\ (Called("nextSlide")' \/ Called("previousSlide")'))
       => /\ currentSlide' = 0
          /\ inited' = inited
          /\ Calls(trace', "transform") = 1]_vars

\* C13: previous() ran with fewer slides than slidesPerView and left 0.
C13_Witness ==
    /\ ~loop
    /\ LastIndex < 0
    /\ Handler = "previousSlide"
    /\ currentSlide = 0

\* C14: a mouseup that takes neither the next() nor the previous() branch
\* leaves currentSlide and the plugins' marks unchanged, calls no plugin's
\* change, and sets the transform to the resting offset of currentSlide.
C14_SnapBack ==
    [][(Handler' = "mouseup" /\ ~AdvanceCase /\ ~RetreatCase)
       => /\ currentSlide' = currentSlide
          /\ Calls(trace', "change") = 0
          /\ transform' = Offset(currentSlide, 0)
          /\ UNCHANGED <<markers, prevDisabled, nextDisabled, autoPlay,
                         timers>>]_vars

\* C14: a release at the upper bound of a slider that does not loop, with
\* two plugins, made no call but the transform.
C14_Witness ==
    /\ ~loop
    /\ Len(plugins) = 2
    /\ LastIndex >= 1
    /\ currentSlide = LastIndex
    /\ trace = <<Ev("mouseup", 0, currentSlide), Ev("transform", 0, currentSlide)>>

\* C15: while the drag handler is not pressed, startPos and distance are 0;
\* a mouseup or mousemove while not pressed leaves currentSlide unchanged
\* and calls no plugin's change; every mouseup ends not pressed.
C15_IdleDrag ==
    /\ [](~isPressed => (startPos = 0 /\ distance = 0))
    /\ [][/\ (~isPressed /\ Handler' \in {"mouseup", "mousemove"}) =>
              (currentSlide' = currentSlide /\ Calls(trace', "change") = 0)
          /\ Handler' = "mouseup" => ~isPressed']_vars

\* C15: a mousemove ran while the handler was not pressed.
C15_Witness ==
    /\ Handler = "mousemove"
    /\ ~isPressed
    /\ Len(plugins) = 2
    /\ currentSlide = 1

\* C16: a timer firing with autoPlay true adds 1 to currentSlide when
\* currentSlide < slideCount - slidesPerView and sets it to 0 otherwise,
\* whatever loop is, and runs the change protocol exactly once.
C16_AutoPlayStep ==
    [][(autoPlay /\ Handler' = "timeout") =>
          /\ currentSlide' =
                (IF currentSlide < LastIndex THEN currentSlide + 1 ELSE 0)
          /\ Calls(trace', "transform") = 1
          /\ \A k \in DOMAIN plugins : ChangeCalls(trace', k) = 1]_vars

\* C16: the timer of a slider that does not loop went from the last index
\* back to 0.
C16_Witness ==
    /\ ~loop
    /\ LastIndex >= 2
    /\ Len(plugins) = 2
    /\ Handler = "timeout"
    /\ Called("changeSlide")
    /\ currentSlide = 0

\* C17: while autoPlay is false at most one timer is pending; its firing
\* changes neither currentSlide nor the plugins' marks, makes no call and
\* schedules nothing; with none pending, none is ever scheduled.
C17_OneIdleFiring ==
    /\ [](~autoPlay => timers <= 1)
    /\ [][/\ (~autoPlay /\ Handler' = "timeout") =>
              /\ timers' = 0
              /\ Len(trace') = 1
              /\ UNCHANGED <<currentSlide, markers, prevDisabled,
                             nextDisabled, transform, autoPlay>>
          /\ (~autoPlay /\ timers = 0) => (~autoPlay' /\ timers' = 0)]_vars

\* C17: the timer fired after a click had stopped auto-play.
C17_Witness ==
    /\ Handler = "timeout"
    /\ Len(trace) = 1
    /\ ~autoPlay
    /\ timers = 0
    /\ currentSlide = 2

\* C18: at most one timer is pending in every state; a slider constructed
\* with autoPlay = false has none pending, and none is ever scheduled
\* for it.
C18_SingleTimer ==
    /\ [](timers <= 1)
    /\ []((inited = "pending" /\ ~autoPlay) => timers = 0)
    /\ [][(~autoPlay /\ timers = 0) => (~autoPlay' /\ timers' = 0)]_vars

\* C18: a timer is pending, after a firing, in the middle of a drag.
C18_Witness ==
    /\ timers = 1
    /\ autoPlay
    /\ isPressed
    /\ distance # 0
    /\ Called("setTimeout")
    /\ Handler = "timeout"

\* C19: with slideCount >= slidesPerView and defaultIndex in [0, slideCount
\* - slidesPerView], under the handlers of the user interface alone and
\* for both values of loop, currentSlide stays in that interval.
C19_UIRange == 0 <= currentSlide /\ currentSlide <= LastIndex

\* C19: a drag release wrapped a looping slider from 0 to the last index
\* while auto-play was running.
C19_Witness ==
    /\ loop
    /\ LastIndex >= 1
    /\ Handler = "mouseup"
    /\ Called("previousSlide")
    /\ currentSlide = LastIndex
    /\ timers = 1

\* The last resting index, max(0, slideCount - slidesPerView).
Top == IF LastIndex > 0 THEN LastIndex ELSE 0

\* A timer firing moves currentSlide up by one or back to 0, so that every
\* index between 0 and the last resting index is passed on the way up.
StepsByOne ==
    [][Handler' = "timeout" =>
          (currentSlide' = currentSlide + 1 \/ currentSlide' = 0)]_vars

\* C20 (as stated): a slider constructed with autoPlay = true, whose
\* autoPlay is never cleared and which is left to its timer, sees the timer
\* fire again and again, and currentSlide is 0 again and again, with every
\* index up to max(0, slideCount - slidesPerView) visited in between.
C20_Original ==
    /\ []<>(Handler = "timeout" /\ currentSlide = 0)
    /\ []<>(currentSlide = Top)
    /\ StepsByOne

\* C20 where init() returns normally.
C20_WhenStarted ==
    \/ <>(inited = "failed")
    \/ /\ []<>(Handler = "timeout" /\ currentSlide = 0)
       /\ []<>(currentSlide = Top)

====
